---- MODULE Spec2Model ----
(***************************************************************************)
(* Measurement scheduling and orchestration engine.                        *)
(*                                                                         *)
(*   CronScheduler        app/services/cron_scheduler.py                   *)
(*   MeasurementService   app/services/measurement_service.py              *)
(*   SystemController     app/controllers/system_controller.py             *)
(*   MeasurementController.start_measurement_logic (the registered job     *)
(*                        callback) app/controllers/measurement_controller *)
(*   SettingsController, SettingsService, SettingsRepository and the       *)
(*   startup (migrate_measurement_config, initialize_scheduler) app/main.py*)
(*                                                                         *)
(* Time is counted in whole minutes.  Every instant is stored as its       *)
(* offset from the present instant, so datetime.now() is always 0 and the  *)
(* passing of one minute (Tick) lowers every stored instant by one.        *)
(* A next-fire instant that lies in the past is stored as -1.               *)
(*                                                                         *)
(* asyncio: a task runs from one await to the next without interruption;   *)
(* Task.cancel() only requests cancellation, the CancelledError is thrown  *)
(* into the task when the event loop next runs it, and callbacks scheduled *)
(* earlier run earlier, so a cancellation requested before a task was      *)
(* created is delivered before that task runs.  CancelledError derives     *)
(* from BaseException and passes the 'except Exception' handlers.          *)
(***************************************************************************)
EXTENDS Integers, Sequences, FiniteSets, TLC

\* ---------------------------------------------------------------- bounds
MaxTasks == 2
MaxFreq == 2
MaxPast == 3
MaxConfigId == 1
MaxRuns == 2
MaxSensors == 2
MaxCallers == 2

\* ------------------------------------------------------ program constants
\* asyncio.sleep(60) after a failed iteration, in minutes
Backoff == 1
\* the lazily created default configuration
DefaultSensors == 1
DefaultLengthOfAe == 10
DefaultFrequency == 60

VARIABLES
    task,                   \* CronScheduler.task: 0 (None) or the task object
    minutes_interval,       \* CronScheduler.minutes_interval
    next_scheduled_date,    \* CronScheduler.next_scheduled_date: None or {instant}
    job_callback,           \* CronScheduler.job_callback is registered
    config_id,              \* CronScheduler.config_id: None or {id}
    tasks,                  \* the asyncio tasks created by set_new_schedule, with
                            \* the start_measurement_by_config call each is inside
    trigger,                \* the manual request in flight
    config,                 \* the stored measurement configuration
    runs,                   \* measurement_info rows, in order of creation
    files,                  \* measurement_files rows
    stored,                 \* the measurement_config row: its id and the fields
                            \* the scheduler is given
    put,                    \* the configuration update in flight
    other,                  \* a second configuration update in flight
    count,                  \* the number of measurement_config rows
    repo,                   \* the repository calls in flight
    camera                  \* the camera stage in progress and its device

vars == <<task, minutes_interval, next_scheduled_date, job_callback, config_id,
          tasks, trigger, config, runs, files, stored, put, other, count, repo,
          camera>>

\* ---------------------------------------------------------------- values
None == {}

Some(x) == {x}

Val(o) == CHOOSE x \in o : TRUE

Max(a, b) == IF a >= b THEN a ELSE b

\* datetime.now(timezone.utc)
Now == 0

Slots == 1..MaxTasks

\* the request handler of POST /scheduler/trigger, as a caller
Manual == 0

\* a float: <<"num", v>> is finite, <<"nan", 0>> and <<"-inf", 0>> are not
Num(v) == <<"num", v>>

NaN == <<"nan", 0>>

NegInf == <<"-inf", 0>>

IsFinite(x) == x[1] = "num"

\* x > 0 on floats: false for NaN and for -inf
FloatGt0(x) == IsFinite(x) /\ x[2] > 0

\* i <= x for an int i and a float x: false for NaN and for -inf
IntLeFloat(i, x) == IsFinite(x) /\ i <= x[2]

\* -------------------------------------------------------------- records
\* MeasurementConfigSchema: the fields the orchestration reads
Configs ==
    [rgb_camera : BOOLEAN, multispectral_camera : BOOLEAN,
     number_of_sensors : 0..MaxSensors,
     length_of_ae : {Num(0), Num(DefaultLengthOfAe), NaN, NegInf}]

\* SettingsRepository._create_default_measurement_config
DefaultConfig ==
    [rgb_camera |-> TRUE, multispectral_camera |-> FALSE,
     number_of_sensors |-> DefaultSensors, length_of_ae |-> Num(DefaultLengthOfAe)]

\* stored configurations that enable one stage each
RgbOnly == [DefaultConfig EXCEPT !.number_of_sensors = 0]

AcousticOnly == [DefaultConfig EXCEPT !.rgb_camera = FALSE]

MultispectralOnly ==
    [rgb_camera |-> FALSE, multispectral_camera |-> TRUE,
     number_of_sensors |-> 0, length_of_ae |-> Num(DefaultLengthOfAe)]

\* no start_measurement_by_config call in progress
IdleCall ==
    [pc |-> "idle", cfg |-> DefaultConfig, run |-> 0, sensor |-> 0,
     results |-> <<>>, ret |-> None]

\* an asyncio task slot that holds no unfinished task
FreeTask == [st |-> "free", pc |-> "none", wake |-> 0, call |-> IdleCall]

\* no manual request in progress; endpoint is "trigger" for POST
\* /scheduler/trigger and "start" for POST /measurements/start
IdleTrigger == [pc |-> "idle", endpoint |-> "trigger", success |-> FALSE, call |-> IdleCall]

\* the awaits of schedule_task and _job_wrapper that wait for a time
Sleeps == {"initial_sleep", "interval_sleep", "backoff_sleep"}

\* the measurement_config row an earlier run of the application has left: its
\* first measurement lies MaxPast minutes or more in the past
FirstRow == [id |-> 1, measurement_frequency |-> 1, first_measurement |-> 0 - MaxPast]

\* the application starts: no configuration update has been made
Startup ==
    [pc |-> "startup", kind |-> "put", status |-> "none",
     body |-> [measurement_frequency |-> 1, first_measurement |-> 0 - MaxPast,
               cfg |-> DefaultConfig]]

\* SystemController.get_scheduler_status: active, for scheduler task tk among
\* the tasks ts
ActiveOf(tk, ts) == tk # 0 /\ ts[tk].st # "free"

Active == ActiveOf(task, tasks)

\* no second configuration update has been made
NoUpdate == [Startup EXCEPT !.pc = "idle"]

\* the callers of the repository
Callers == 1..MaxCallers

\* a caller that is not inside the repository
NoCall ==
    [pc |-> "none", op |-> "none", seen |-> 0, body |-> Startup.body,
     ret |-> [id |-> 0, measurement_frequency |-> 0, first_measurement |-> 0]]

\* no camera stage is in progress and no device is connected
NoStage ==
    [pc |-> "idle", stage |-> "rgb", run |-> 0, connected |-> FALSE,
     status |-> "none", message |-> "none"]

\* the scheduler when the application starts, with no request in flight
Booted ==
    /\ task = 0
    /\ minutes_interval = 0
    /\ next_scheduled_date = None
    /\ job_callback = FALSE
    /\ config_id = None
    /\ tasks = [t \in Slots |-> FreeTask]
    /\ trigger = IdleTrigger
    /\ runs = <<>>
    /\ files = {}
    /\ put = Startup
    /\ other = NoUpdate
    /\ repo = [c \in Callers |-> NoCall]
    /\ camera = NoStage

\* the scheduler and the repositories when the application starts: an earlier
\* run has left one measurement_config row
Start == Booted /\ stored = FirstRow /\ count = 1

\* the stored configuration enables one stage; SpecOrch runs every configuration
Init == Start /\ config \in {RgbOnly, MultispectralOnly, AcousticOnly}

\* ------------------------------------------------------------- scheduler
\* CronScheduler.register_job, called by MeasurementController.__init__
register_job ==
    /\ job_callback' = TRUE
    /\ UNCHANGED <<task, minutes_interval, next_scheduled_date, config_id, tasks,
                   trigger, config, runs, files, stored, put,
                   other, count, repo, camera>>

\* a faulty NextOccurrence: the count of intervals passed is not advanced by one
NextOccurrenceFloor(start_time, interval) ==
    start_time + ((Now - start_time) \div interval) * interval

\* the next occurrence of a start time that lies in the past:
\* intervals_passed = int(time_diff / minutes_interval) + 1
NextOccurrence(start_time, interval) ==
    start_time + (((Now - start_time) \div interval) + 1) * interval

\* the start time set_new_schedule arms for
ArmTime(interval, start_time) ==
    LET given == IF start_time = None THEN Now + interval ELSE Val(start_time)
    IN  IF given < Now THEN NextOccurrence(given, interval) ELSE given

\* a faulty Delay: the task does not wait for the start time
DelayNone(start_time) == 0

\* delay = max(0, (start_time - now).total_seconds())
Delay(start_time) == Max(0, start_time - Now)

\* a faulty Cancel: the existing task is dropped without being cancelled
CancelForgotten(rec) == rec

\* Task.cancel(): the cancellation is requested, the task is not yet done; what
\* its coroutine holds is never read again
Cancel(rec) == [FreeTask EXCEPT !.st = "cancelling"]

\* the slot of the task loop.create_task returns
NewTask(ts) == CHOOSE t \in Slots : ts[t].st = "free" /\ \A u \in Slots : ts[u].st = "free" => t <= u

\* the scheduler fields and tasks as they are
Unchanged ==
    [task |-> task, minutes_interval |-> minutes_interval,
     next_scheduled_date |-> next_scheduled_date, config_id |-> config_id,
     tasks |-> tasks]

\* a faulty Skipped: the identity of the configuration is never compared
NeverSkipped(cid) == FALSE

\* config_id is not None and config_id == self.config_id: return at once
Skipped(cid) == cid # None /\ cid = config_id

\* the tasks once the existing task, if not done, is cancelled
Cancelled == IF Active THEN [tasks EXCEPT ![task] = Cancel(@)] ELSE tasks

\* self.config_id after 'if config_id is not None: self.config_id = config_id'
Recorded(cid) == IF cid # None THEN cid ELSE config_id

\* a faulty Stopped: self.task keeps the cancelled task
StoppedKeepsTask(cid) ==
    [Unchanged EXCEPT !.config_id = Recorded(cid), !.tasks = Cancelled,
                      !.next_scheduled_date = None]

\* a faulty Stopped: the next fire is not cleared
StoppedKeepsDate(cid) ==
    [Unchanged EXCEPT !.config_id = Recorded(cid), !.task = 0, !.tasks = Cancelled]

\* minutes_interval <= 0: the task is cancelled, the next fire is cleared
Stopped(cid) ==
    [Unchanged EXCEPT !.config_id = Recorded(cid), !.task = 0, !.tasks = Cancelled,
                      !.next_scheduled_date = None]

\* the task is cancelled and a new task is created, to start at the arm time
Armed(interval, start_time, cid) ==
    [task |-> NewTask(Cancelled),
     minutes_interval |-> interval,
     next_scheduled_date |-> Some(ArmTime(interval, start_time)),
     config_id |-> Recorded(cid),
     tasks |-> [Cancelled EXCEPT ![NewTask(Cancelled)] =
                   [st |-> "pending", pc |-> "initial_sleep",
                    wake |-> Delay(ArmTime(interval, start_time)),
                    call |-> IdleCall]]]

\* the scheduler fields and tasks set_new_schedule(minutes_interval, start_time,
\* config_id) leaves behind when it is called in the current state
AfterSchedule(interval, start_time, cid) ==
    IF Skipped(cid) THEN Unchanged
    ELSE IF interval <= 0 THEN Stopped(cid)
    ELSE Armed(interval, start_time, cid)

\* there is room for one more task
CanArm == \E t \in Slots : tasks[t].st = "free"

\* the call creates a task: it is not skipped and its interval is positive
Arms(interval, cid) == ~Skipped(cid) /\ interval > 0

\* the scheduler fields and tasks become those of `after`
Becomes(after) ==
    /\ task' = after.task
    /\ minutes_interval' = after.minutes_interval
    /\ next_scheduled_date' = after.next_scheduled_date
    /\ config_id' = after.config_id
    /\ tasks' = after.tasks

\* CronScheduler.set_new_schedule(minutes_interval, start_time, config_id)
set_new_schedule(interval, start_time, cid) ==
    /\ Arms(interval, cid) => CanArm
    /\ \E after \in {AfterSchedule(interval, start_time, cid)} : Becomes(after)

\* the arguments callers pass
Frequencies == (0 - 1)..MaxFreq

StartTimes == {None} \cup {Some(i) : i \in (0 - MaxPast)..1}

ConfigIds == {None} \cup {Some(i) : i \in 1..MaxConfigId}

\* the calls of set_new_schedule there is room for
Calls ==
    {c \in Frequencies \X StartTimes \X ConfigIds : Arms(c[1], c[3]) => CanArm}

\* a caller calls set_new_schedule with any arguments; calls that leave the
\* same scheduler behind are the same step
SetNewSchedule ==
    /\ \E after \in {AfterSchedule(c[1], c[2], c[3]) : c \in Calls} : Becomes(after)
    /\ UNCHANGED <<job_callback, trigger, config, runs, files, stored, put,
                   other, count, repo, camera>>

\* one minute passes
Shift(date) == IF date = None THEN None ELSE Some(Max(Val(date) - 1, 0 - 1))

Tick ==
    /\ next_scheduled_date' = Shift(next_scheduled_date)
    /\ tasks' = [t \in Slots |->
                    IF tasks[t].st = "pending" /\ tasks[t].pc \in Sleeps
                    THEN [tasks[t] EXCEPT !.wake = Max(@ - 1, 0)]
                    ELSE tasks[t]]
    /\ stored' = [stored EXCEPT !.first_measurement = Max(@ - 1, 0 - MaxPast)]
    /\ UNCHANGED <<task, minutes_interval, job_callback, config_id, trigger,
                   config, runs, files, put, other, count, repo, camera>>

\* a faulty Unwind: the handler of _job_wrapper catches the CancelledError and
\* the loop goes on
UnwindCaught(rec) == [FreeTask EXCEPT !.st = "pending", !.pc = "backoff_sleep", !.wake = Backoff]

\* where a CancelledError thrown into the task leaves it: no handler of
\* schedule_task or _job_wrapper catches it, the task ends
Unwind(rec) == FreeTask

\* the event loop runs a task whose cancellation was requested
DeliverCancel(t) ==
    /\ tasks[t].st = "cancelling"
    /\ tasks' = [tasks EXCEPT ![t] = Unwind(@)]
    /\ UNCHANGED <<task, minutes_interval, next_scheduled_date, job_callback,
                   config_id, trigger, config, runs, files, stored, put,
                   other, count, repo, camera>>

\* a faulty Ready: a task may run before an earlier cancellation is delivered
ReadyAnyOrder(t) == tasks[t].st = "pending"

\* the event loop may run task t: requested cancellations are delivered first
Ready(t) == tasks[t].st = "pending" /\ \A u \in Slots : tasks[u].st # "cancelling"

\* ---------------------------------------------------------- orchestrator
\* MeasurementInfoOrm built from a configuration
RunOf(cfg, scheduled) ==
    [rgb_camera |-> cfg.rgb_camera, multispectral_camera |-> cfg.multispectral_camera,
     number_of_sensors |-> cfg.number_of_sensors, length_of_ae |-> cfg.length_of_ae,
     scheduled |-> scheduled]

\* the test that guards capture_acoustic_data
AcousticEnabled(cfg) == cfg.number_of_sensors > 0 /\ FloatGt0(cfg.length_of_ae)

\* a faulty NextStage: the multispectral camera is invoked before the RGB
\* camera
NextStageMultispectralFirst(cfg, after) ==
    IF after = "save_run" /\ cfg.multispectral_camera THEN "ms"
    ELSE IF after \in {"save_run", "ms"} /\ cfg.rgb_camera THEN "rgb"
    ELSE IF AcousticEnabled(cfg) THEN "ae"
    ELSE "return_"

\* the next stage start_measurement_by_config invokes after stage `after`
NextStage(cfg, after) ==
    IF after = "save_run" /\ cfg.rgb_camera THEN "rgb"
    ELSE IF after \in {"save_run", "rgb"} /\ cfg.multispectral_camera THEN "ms"
    ELSE IF AcousticEnabled(cfg) THEN "ae"
    ELSE "return_"

\* a faulty StartCall: the configuration that was read is not the one used
StartCallDefault(cfg) == [IdleCall EXCEPT !.pc = "save_run"]

\* start_measurement_by_config entered, up to its await of save_new_measurement
StartCall(cfg) == [IdleCall EXCEPT !.pc = "save_run", !.cfg = cfg]

\* the call goes on to stage `pc`, or returns the measurement
Goto(call, pc) ==
    [call EXCEPT !.pc = pc, !.ret = IF pc = "return_" THEN Some(call.run) ELSE None]

\* a faulty ReturnNone: the handler returns the measurement it holds
ReturnRun(call) == [call EXCEPT !.pc = "return_", !.ret = Some(call.run)]

\* an exception reaches the handler of start_measurement_by_config: return None
ReturnNone(call) == [call EXCEPT !.pc = "return_", !.ret = None]

\* the result a stage function returns is appended to results; its message
\* names what failed
Result(call, stage, o) ==
    [call EXCEPT !.results =
        Append(@, [stage |-> stage, message |-> o,
                   status |-> IF o = "success" THEN "success" ELSE "error"])]

\* the start_measurement_by_config call of caller p
Call(p) == IF p = Manual THEN trigger.call ELSE tasks[p].call

SetCall(p, call) ==
    IF p = Manual
    THEN trigger' = [trigger EXCEPT !.call = call] /\ UNCHANGED tasks
    ELSE tasks' = [tasks EXCEPT ![p].call = call] /\ UNCHANGED trigger

\* caller p is inside start_measurement_by_config and may run
Running(p) ==
    IF p = Manual THEN trigger.pc = "orch"
    ELSE Ready(p) /\ tasks[p].pc \in {"orch", "cb_orch"}

\* the measurement_info row gets its id
Created(call) == Goto([call EXCEPT !.run = Len(runs) + 1], NextStage(call.cfg, "save_run"))

\* measurement_repo.save_new_measurement returns or raises
SaveRun(p) ==
    /\ Running(p) /\ Call(p).pc = "save_run"
    /\ \/ /\ Len(runs) < MaxRuns
          /\ runs' = Append(runs, RunOf(Call(p).cfg, TRUE))
          /\ SetCall(p, Created(Call(p)))
       \/ /\ SetCall(p, ReturnNone(Call(p)))
          /\ UNCHANGED runs
    /\ UNCHANGED <<task, minutes_interval, next_scheduled_date, job_callback,
                   config_id, config, files, stored, put, other, count, repo,
                   camera>>

\* what can happen in a camera stage
CameraOutcomes ==
    {"connect_failed", "capture_failed", "upload_failed", "save_raised", "success"}

\* a faulty FileOf: the row is saved under the identity of the first Run
FileOfFirstRun(call, kind) == [measurement_id |-> 1, kind |-> kind, sensor |-> call.sensor]

\* the measurement_files row a stage saves
FileOf(call, kind) == [measurement_id |-> call.run, kind |-> kind, sensor |-> call.sensor]

\* a camera stage: start_rgb_measurement or start_multispectral_measurement
CameraStage(p, stage) ==
    \E o \in CameraOutcomes :
        /\ files' = IF o = "success" THEN files \cup {FileOf(Call(p), stage)} ELSE files
        /\ SetCall(p, Goto(Result(Call(p), stage, o),
                           NextStage(Call(p).cfg, stage)))

\* config.rgb_camera: duration=int(config.length_of_ae), start_rgb_measurement
StageRgb(p) ==
    /\ Running(p) /\ Call(p).pc = "rgb"
    /\ IF IsFinite(Call(p).cfg.length_of_ae)
       THEN CameraStage(p, "rgb")
       ELSE SetCall(p, ReturnNone(Call(p))) /\ UNCHANGED files
    /\ UNCHANGED <<task, minutes_interval, next_scheduled_date, job_callback,
                   config_id, config, runs, stored, put, other, count, repo,
                   camera>>

\* config.multispectral_camera: start_multispectral_measurement
StageMs(p) ==
    /\ Running(p) /\ Call(p).pc = "ms"
    /\ CameraStage(p, "ms")
    /\ UNCHANGED <<task, minutes_interval, next_scheduled_date, job_callback,
                   config_id, config, runs, stored, put, other, count, repo,
                   camera>>

\* capture_acoustic_data up to its sensor loop: authenticate, create_folder_path
AcousticBegin(p) ==
    /\ Running(p) /\ Call(p).pc = "ae"
    /\ \E o \in {"authenticate_failed", "folder_failed", "ok"} :
         SetCall(p, IF o = "ok"
                    THEN [Call(p) EXCEPT !.pc = "ae_sensor", !.sensor = 1]
                    ELSE Goto(Result(Call(p), "ae", o), "return_"))
    /\ UNCHANGED <<task, minutes_interval, next_scheduled_date, job_callback,
                   config_id, config, runs, files, stored, put,
                   other, count, repo, camera>>

\* the call after its sensor loop handled sensor call.sensor with outcome o:
\* a failure returns the error result at once
AfterSensor(call, o) ==
    IF o # "success" THEN Goto(Result(call, "ae", o), "return_")
    ELSE IF call.sensor = call.cfg.number_of_sensors
    THEN Goto(Result(call, "ae", "success"), "return_")
    ELSE [call EXCEPT !.sensor = @ + 1]

\* one pass of the sensor loop of capture_acoustic_data
AcousticSensor(p) ==
    /\ Running(p) /\ Call(p).pc = "ae_sensor"
    /\ \E o \in {"mock_missing", "upload_failed", "save_raised", "success"} :
         /\ files' = IF o = "success" THEN files \cup {FileOf(Call(p), "ae")} ELSE files
         /\ SetCall(p, AfterSensor(Call(p), o))
    /\ UNCHANGED <<task, minutes_interval, next_scheduled_date, job_callback,
                   config_id, config, runs, stored, put, other, count, repo,
                   camera>>

\* the ways start_rgb_measurement and start_multispectral_measurement return
\* before their await: connect(), get_image_blob(), authenticate(),
\* create_folder_path() or upload_file_to_path() has returned a falsy value
EarlyReturns ==
    {"connect_failed", "capture_failed", "auth_failed", "folder_failed", "upload_failed"}

\* the stage returns an error from its body: the device, connected unless
\* connect() failed, is disconnected before the return
ReturnedEarly(stage, run, o) ==
    [pc |-> "returned", stage |-> stage, run |-> run, connected |-> FALSE,
     status |-> "error", message |-> o]

\* start_rgb_measurement or start_multispectral_measurement of a Run, up to
\* its return or its await of file_repo.save, which it reaches with the device
\* connected
StageBegin ==
    /\ camera.pc \in {"idle", "returned"}
    /\ \E stage \in {"rgb", "ms"}, run \in 1..MaxRuns :
          \/ \E o \in EarlyReturns : camera' = ReturnedEarly(stage, run, o)
          \/ camera' = [pc |-> "save", stage |-> stage, run |-> run,
                        connected |-> TRUE, status |-> "none", message |-> "none"]
    /\ UNCHANGED <<task, minutes_interval, next_scheduled_date, job_callback,
                   config_id, tasks, trigger, config, runs, files, stored, put,
                   other, count, repo>>

\* file_repo.save returns: the device is disconnected and the stage returns
\* success; or it raises: 'except Exception' returns an error
StageSave ==
    /\ camera.pc = "save"
    /\ \/ /\ files' = files \cup {FileOf([run |-> camera.run, sensor |-> 0], camera.stage)}
          /\ camera' = [camera EXCEPT !.pc = "returned", !.connected = FALSE,
                                      !.status = "success", !.message = "success"]
       \/ /\ camera' = [camera EXCEPT !.pc = "returned", !.status = "error",
                                      !.message = "save_raised"]
          /\ UNCHANGED files
    /\ UNCHANGED <<task, minutes_interval, next_scheduled_date, job_callback,
                   config_id, tasks, trigger, config, runs, stored, put,
                   other, count, repo>>

Orchestrate(p) ==
    SaveRun(p) \/ StageRgb(p) \/ StageMs(p) \/ AcousticBegin(p) \/ AcousticSensor(p)

\* ------------------------------------------------------ the recurring loop
\* a faulty JobError: the exception ends the loop
JobErrorFatal(rec) == FreeTask

\* a faulty JobError: the loop retries without backing off
JobErrorNoBackoff(rec) == [rec EXCEPT !.pc = "backoff_sleep", !.wake = 0, !.call = IdleCall]

\* the handler of _job_wrapper: log, then await asyncio.sleep(60)
JobError(rec) == [rec EXCEPT !.pc = "backoff_sleep", !.wake = Backoff, !.call = IdleCall]

\* a faulty IntervalSleep: the loop goes on without waiting
IntervalSleepNoWait(rec) ==
    [rec EXCEPT !.pc = "interval_sleep", !.wake = 0, !.call = IdleCall]

\* await asyncio.sleep(self.minutes_interval * 60)
IntervalSleep(rec) ==
    [rec EXCEPT !.pc = "interval_sleep", !.wake = minutes_interval, !.call = IdleCall]

\* a sleep of the task is over: the top of the loop of _job_wrapper, up to
\* its await of get_measurement_config
WakeUp(t) ==
    /\ Ready(t) /\ tasks[t].pc \in Sleeps /\ tasks[t].wake = 0
    /\ next_scheduled_date' = Some(Now + minutes_interval)
    /\ tasks' = [tasks EXCEPT ![t].pc = "get_config"]
    /\ UNCHANGED <<task, minutes_interval, job_callback, config_id, trigger,
                   config, runs, files, stored, put, other, count, repo,
                   camera>>

\* settings_service.get_measurement_config returns or raises; on return the
\* loop enters start_measurement_by_config
GetConfig(t) ==
    /\ Ready(t) /\ tasks[t].pc = "get_config"
    /\ \/ tasks' = [tasks EXCEPT ![t].pc = "orch", ![t].call = StartCall(config)]
       \/ tasks' = [tasks EXCEPT ![t] = JobError(@)]
    /\ UNCHANGED <<task, minutes_interval, next_scheduled_date, job_callback,
                   config_id, trigger, config, runs, files, stored, put,
                   other, count, repo, camera>>

\* start_measurement_by_config has returned to the loop: the registered
\* callback is entered, or the loop sleeps
AfterOrch(t) ==
    /\ Ready(t) /\ tasks[t].pc = "orch" /\ tasks[t].call.pc = "return_"
    /\ tasks' = [tasks EXCEPT ![t] =
                    IF job_callback
                    THEN [@ EXCEPT !.pc = "cb_get_config", !.call = IdleCall]
                    ELSE IntervalSleep(@)]
    /\ UNCHANGED <<task, minutes_interval, next_scheduled_date, job_callback,
                   config_id, trigger, config, runs, files, stored, put,
                   other, count, repo, camera>>

\* start_measurement_logic(scheduled=True): get_measurement_config returns or
\* raises (an HTTPException leaves the callback)
CbGetConfig(t) ==
    /\ Ready(t) /\ tasks[t].pc = "cb_get_config"
    /\ \/ tasks' = [tasks EXCEPT ![t].pc = "cb_create",
                                 ![t].call = [IdleCall EXCEPT !.cfg = config]]
       \/ tasks' = [tasks EXCEPT ![t] = JobError(@)]
    /\ UNCHANGED <<task, minutes_interval, next_scheduled_date, job_callback,
                   config_id, trigger, config, runs, files, stored, put,
                   other, count, repo, camera>>

\* start_measurement_logic: create_measurement returns or raises; on return
\* the callback enters start_measurement_by_config
CbCreate(t) ==
    /\ Ready(t) /\ tasks[t].pc = "cb_create"
    /\ \/ /\ Len(runs) < MaxRuns
          /\ runs' = Append(runs, RunOf(tasks[t].call.cfg, TRUE))
          /\ tasks' = [tasks EXCEPT ![t].pc = "cb_orch", ![t].call = StartCall(@.cfg)]
       \/ /\ tasks' = [tasks EXCEPT ![t] = JobError(@)]
          /\ UNCHANGED runs
    /\ UNCHANGED <<task, minutes_interval, next_scheduled_date, job_callback,
                   config_id, trigger, config, files, stored, put,
                   other, count, repo, camera>>

\* start_measurement_by_config has returned to the callback: the callback
\* builds its response and returns to the loop, which sleeps, or it raises
AfterCallback(t) ==
    /\ Ready(t) /\ tasks[t].pc = "cb_orch" /\ tasks[t].call.pc = "return_"
    /\ \/ tasks' = [tasks EXCEPT ![t] = IntervalSleep(@)]
       \/ tasks' = [tasks EXCEPT ![t] = JobError(@)]
    /\ UNCHANGED <<task, minutes_interval, next_scheduled_date, job_callback,
                   config_id, trigger, config, runs, files, stored, put,
                   other, count, repo, camera>>

\* ------------------------------------------------- POST /scheduler/trigger
\* a faulty TriggerStart: the trigger records a fire, as the top of the loop does
TriggerStartAsFire ==
    /\ trigger.pc \in {"idle", "responded"}
    /\ trigger' = [IdleTrigger EXCEPT !.pc = "get_config"]
    /\ next_scheduled_date' = Some(Now + minutes_interval)
    /\ UNCHANGED <<task, minutes_interval, job_callback, config_id, tasks, config,
                   runs, files, stored, put, other, count, repo, camera>>

\* SystemController.trigger_scheduled_measurement is entered, up to its await
\* of get_measurement_config
TriggerStart ==
    /\ trigger.pc \in {"idle", "responded"}
    /\ trigger' = [IdleTrigger EXCEPT !.pc = "get_config"]
    /\ UNCHANGED <<task, minutes_interval, next_scheduled_date, job_callback,
                   config_id, tasks, config, runs, files, stored, put,
                   other, count, repo, camera>>

\* get_measurement_config returns or raises; on return the handler enters
\* start_measurement_by_config
TriggerGetConfig ==
    /\ trigger.pc = "get_config"
    /\ \/ trigger' = [trigger EXCEPT !.pc = "orch", !.call = StartCall(config)]
       \/ trigger' = [trigger EXCEPT !.pc = "responded", !.success = FALSE]
    /\ UNCHANGED <<task, minutes_interval, next_scheduled_date, job_callback,
                   config_id, tasks, config, runs, files, stored, put,
                   other, count, repo, camera>>

\* start_measurement_by_config has returned: ManualTriggerResponse
TriggerRespond ==
    /\ trigger.pc = "orch" /\ trigger.call.pc = "return_"
    /\ trigger' = [trigger EXCEPT !.pc = "responded", !.success = (trigger.call.ret # None)]
    /\ UNCHANGED <<task, minutes_interval, next_scheduled_date, job_callback,
                   config_id, tasks, config, runs, files, stored, put,
                   other, count, repo, camera>>

TriggerStep == TriggerStart \/ TriggerGetConfig \/ Orchestrate(Manual) \/ TriggerRespond

\* ------------------------------------------------- POST /measurements/start
\* the stage start_measurement_logic goes on to after `after`, for a
\* configuration that is not a MeasurementConfigSchema
LegacyNext(cfg, after) ==
    IF after = "legacy_create" /\ cfg.rgb_camera THEN "legacy_rgb"
    ELSE IF after \in {"legacy_create", "legacy_rgb"} /\ cfg.multispectral_camera
    THEN "legacy_ms"
    ELSE "legacy_return"

\* MeasurementController is built for the request (its __init__ registers the
\* job callback); start_measurement calls start_measurement_logic(scheduled=
\* False, config) with the configuration of the request body, up to its await
\* of create_measurement
StartRequestOf(bodies) ==
    /\ trigger.pc \in {"idle", "responded"}
    /\ \E c \in bodies :
          trigger' = [IdleTrigger EXCEPT !.pc = "start", !.endpoint = "start",
                          !.call = [IdleCall EXCEPT !.pc = "legacy_create", !.cfg = c]]
    /\ job_callback' = TRUE
    /\ UNCHANGED <<task, minutes_interval, next_scheduled_date, config_id, tasks,
                   config, runs, files, stored, put, other, count, repo,
                   camera>>

\* create_measurement returns or raises; a raise becomes an HTTPException and
\* start_measurement answers success = false
StartCreate ==
    /\ trigger.pc = "start" /\ trigger.call.pc = "legacy_create"
    /\ \/ /\ Len(runs) < MaxRuns
          /\ runs' = Append(runs, RunOf(trigger.call.cfg, FALSE))
          /\ trigger' = [trigger EXCEPT !.call.run = Len(runs) + 1,
                             !.call.pc = LegacyNext(trigger.call.cfg, "legacy_create")]
       \/ /\ trigger' = [trigger EXCEPT !.pc = "responded", !.success = FALSE]
          /\ UNCHANGED runs
    /\ UNCHANGED <<task, minutes_interval, next_scheduled_date, job_callback,
                   config_id, tasks, config, files, stored, put,
                   other, count, repo, camera>>

\* start_rgb_measurement or start_multispectral_measurement, called by
\* start_measurement_logic itself
StartStage ==
    /\ trigger.pc = "start" /\ trigger.call.pc \in {"legacy_rgb", "legacy_ms"}
    /\ \E stage \in {IF trigger.call.pc = "legacy_rgb" THEN "rgb" ELSE "ms"} :
       \E o \in CameraOutcomes :
          /\ files' = IF o = "success" THEN files \cup {FileOf(trigger.call, stage)} ELSE files
          /\ trigger' = [trigger EXCEPT !.call =
                             [Result(@, stage, o) EXCEPT
                                 !.pc = LegacyNext(trigger.call.cfg, trigger.call.pc)]]
    /\ UNCHANGED <<task, minutes_interval, next_scheduled_date, job_callback,
                   config_id, tasks, config, runs, stored, put,
                   other, count, repo, camera>>

\* start_measurement_logic builds its response from the saved measurement and
\* returns, or raises; start_measurement answers
StartRespond ==
    /\ trigger.pc = "start" /\ trigger.call.pc = "legacy_return"
    /\ \E ok \in BOOLEAN : trigger' = [trigger EXCEPT !.pc = "responded", !.success = ok]
    /\ UNCHANGED <<task, minutes_interval, next_scheduled_date, job_callback,
                   config_id, tasks, config, runs, files, stored, put,
                   other, count, repo, camera>>

\* the bodies of manual starts: any stages and sensor count, a finite stage
\* duration
StartBodies == {c \in Configs : IsFinite(c.length_of_ae)}

\* a manual start with any such body
StartRequest == StartRequestOf(StartBodies)

StartStep == StartRequest \/ StartCreate \/ StartStage \/ StartRespond

\* ------------------------------------------------ configuration updates
\* the bodies of configuration updates: MeasurementConfigSchema
Bodies ==
    [measurement_frequency : Frequencies,
     first_measurement : {0 - MaxPast, 1},
     cfg : {[DefaultConfig EXCEPT !.length_of_ae = l] :
               l \in {Num(0), Num(DefaultLengthOfAe), NaN}}]

\* the scheduler is left as it is
SchedulerUnchanged ==
    UNCHANGED <<task, minutes_interval, next_scheduled_date, config_id, tasks>>

\* the update ends: a PUT is answered, the migration returns to the startup
Ended(status) ==
    [put EXCEPT !.pc = IF put.kind = "migrate" THEN "migrated" ELSE "done",
                !.status = status]

\* SettingsController.update_measurement_config up to its first await: a
\* frequency that is <= length_of_ae raises an HTTPException, which the
\* handler's 'except Exception' turns into a 500
UpdateRequestOf(bodies) ==
    /\ put.pc \in {"idle", "done"}
    /\ \E b \in bodies :
          put' = IF IntLeFloat(b.measurement_frequency, b.cfg.length_of_ae)
                 THEN [pc |-> "done", kind |-> "put", status |-> "500", body |-> b]
                 ELSE [pc |-> "svc_get", kind |-> "put", status |-> "none", body |-> b]
    /\ SchedulerUnchanged
    /\ UNCHANGED <<job_callback, trigger, config, runs, files, stored,
                   other, count, repo, camera>>

\* a configuration update with any body
UpdateRequest == UpdateRequestOf(Bodies)

\* migrate_measurement_config, when data/measurement_config.json exists: the
\* file is read into a MeasurementConfigSchema and given to the service
MigrateStart ==
    /\ put.pc = "startup"
    /\ \E b \in Bodies :
          put' = [pc |-> "svc_get", kind |-> "migrate", status |-> "none", body |-> b]
    /\ SchedulerUnchanged
    /\ UNCHANGED <<job_callback, trigger, config, runs, files, stored,
                   other, count, repo, camera>>

\* a faulty Differs: the first measurement is not compared
DiffersFrequency(body, row) ==
    body.measurement_frequency # row.measurement_frequency

\* config.measurement_frequency != old_config.measurement_frequency or
\* config.first_measurement != old_config.first_measurement
Differs(body, row) ==
    \/ body.measurement_frequency # row.measurement_frequency
    \/ body.first_measurement # row.first_measurement

\* SettingsService.update_measurement_config: get_measurement_config returns
\* or raises; when the frequency or the first measurement differs from the
\* stored one the scheduler is set, then the repository is called
ServiceUpdate ==
    /\ put.pc = "svc_get"
    /\ \/ /\ put' = [put EXCEPT !.pc = "repo_update"]
          /\ IF Differs(put.body, stored)
             THEN set_new_schedule(put.body.measurement_frequency,
                                   Some(put.body.first_measurement), None)
             ELSE SchedulerUnchanged
       \/ /\ put' = Ended(IF put.kind = "migrate" THEN "error" ELSE "500")
          /\ SchedulerUnchanged
    /\ UNCHANGED <<job_callback, trigger, config, runs, files, stored,
                   other, count, repo, camera>>

\* the row SettingsRepository.update_measurement_config leaves: the existing
\* row with the fields of the body
Updated(row, body) ==
    [row EXCEPT !.measurement_frequency = body.measurement_frequency,
                !.first_measurement = body.first_measurement]

\* SettingsRepository.update_measurement_config returns or raises; on return
\* the PUT handler sets the scheduler with the id of the row and answers
RepoUpdate ==
    /\ put.pc = "repo_update"
    /\ \/ /\ stored' = Updated(stored, put.body)
          /\ config' = put.body.cfg
          /\ put' = Ended(IF put.kind = "migrate" THEN "ok" ELSE "200")
          /\ IF put.kind = "put"
             THEN set_new_schedule(put.body.measurement_frequency,
                                   Some(put.body.first_measurement), Some(stored.id))
             ELSE SchedulerUnchanged
       \/ /\ put' = Ended(IF put.kind = "migrate" THEN "error" ELSE "500")
          /\ SchedulerUnchanged
          /\ UNCHANGED <<stored, config>>
    /\ UNCHANGED <<job_callback, trigger, runs, files, other, count, repo,
                   camera>>

\* initialize_scheduler, after the migration if there is one:
\* get_measurement_config returns and the scheduler is set, or it raises
initialize_scheduler ==
    /\ put.pc \in {"startup", "migrated"}
    /\ put' = [put EXCEPT !.pc = "idle"]
    /\ \/ set_new_schedule(stored.measurement_frequency,
                            Some(stored.first_measurement), Some(stored.id))
       \/ SchedulerUnchanged
    /\ UNCHANGED <<job_callback, trigger, config, runs, files, stored,
                   other, count, repo, camera>>

UpdateStep == UpdateRequest \/ ServiceUpdate \/ RepoUpdate

\* a stored configuration whose frequency, that of FirstRow, exceeds its
\* stage duration
ValidConfig == [DefaultConfig EXCEPT !.length_of_ae = Num(0)]

\* the bodies of the updates that are made concurrently
ConcurrentBodies ==
    {b \in Bodies : b.first_measurement = 1 /\ b.cfg = ValidConfig}

\* a second request reaches SettingsController.update_measurement_config while
\* the first is in flight or answered
OtherRequest ==
    /\ other.pc \in {"idle", "done"}
    /\ \E b \in ConcurrentBodies :
          other' = IF IntLeFloat(b.measurement_frequency, b.cfg.length_of_ae)
                   THEN [pc |-> "done", kind |-> "put", status |-> "500", body |-> b]
                   ELSE [pc |-> "svc_get", kind |-> "put", status |-> "none", body |-> b]
    /\ SchedulerUnchanged
    /\ UNCHANGED <<job_callback, trigger, config, runs, files, stored, put, count, repo,
                   camera>>

\* SettingsService.update_measurement_config of the second request
OtherService ==
    /\ other.pc = "svc_get"
    /\ \/ /\ other' = [other EXCEPT !.pc = "repo_update"]
          /\ IF Differs(other.body, stored)
             THEN set_new_schedule(other.body.measurement_frequency,
                                   Some(other.body.first_measurement), None)
             ELSE SchedulerUnchanged
       \/ /\ other' = [other EXCEPT !.pc = "done", !.status = "500"]
          /\ SchedulerUnchanged
    /\ UNCHANGED <<job_callback, trigger, config, runs, files, stored, put, count, repo,
                   camera>>

\* SettingsRepository.update_measurement_config of the second request returns
\* or raises; on return its handler sets the scheduler with the id of the row
OtherRepo ==
    /\ other.pc = "repo_update"
    /\ \/ /\ stored' = Updated(stored, other.body)
          /\ config' = other.body.cfg
          /\ other' = [other EXCEPT !.pc = "done", !.status = "200"]
          /\ set_new_schedule(other.body.measurement_frequency,
                              Some(other.body.first_measurement), Some(stored.id))
       \/ /\ other' = [other EXCEPT !.pc = "done", !.status = "500"]
          /\ SchedulerUnchanged
          /\ UNCHANGED <<stored, config>>
    /\ UNCHANGED <<job_callback, trigger, runs, files, put, count, repo,
                   camera>>

OtherStep == OtherRequest \/ OtherService \/ OtherRepo

\* -------------------------------------------------- the settings repository
\* the measurement_config table is empty: no row is stored
NoRow == [id |-> 0, measurement_frequency |-> 0, first_measurement |-> 0]

\* the row _create_default_measurement_config inserts: 60 minutes, first
\* measurement on 2023-04-26
DefaultRow(id) ==
    [id |-> id, measurement_frequency |-> DefaultFrequency,
     first_measurement |-> 0 - MaxPast]

\* the row update_measurement_config inserts when it has counted no row
NewRow(id, body) ==
    [id |-> id, measurement_frequency |-> body.measurement_frequency,
     first_measurement |-> body.first_measurement]

\* the configurations given to update_measurement_config
RepoBodies == {b \in ConcurrentBodies : b.measurement_frequency > 0}

\* the repository calls of the other callers are left as they are
SetRepo(c, call) == repo' = [repo EXCEPT ![c] = call]

\* caller c enters get_measurement_config or update_measurement_config, up to
\* the await of _get_config_count
RepoEnter(c) ==
    /\ repo[c].pc \in {"none", "returned", "raised"}
    /\ \/ SetRepo(c, [NoCall EXCEPT !.pc = "count", !.op = "get"])
       \/ \E b \in RepoBodies :
             SetRepo(c, [pc |-> "count", op |-> "update", seen |-> 0, body |-> b,
                         ret |-> NoRow])
    /\ UNCHANGED <<task, minutes_interval, next_scheduled_date, job_callback,
                   config_id, tasks, trigger, config, runs, files, stored, put,
                   other, count, camera>>

\* the call of caller c raises: nothing is committed
Raised(c) == SetRepo(c, [repo[c] EXCEPT !.pc = "raised"])

\* _get_config_count returns the number of rows that are committed, or raises
RepoCount(c) ==
    /\ repo[c].pc = "count"
    /\ SetRepo(c, [repo[c] EXCEPT !.pc = "write", !.seen = count]) \/ Raised(c)
    /\ UNCHANGED <<task, minutes_interval, next_scheduled_date, job_callback,
                   config_id, tasks, trigger, config, runs, files, stored, put,
                   other, count, camera>>

\* get_measurement_config after the count: no row was counted and the default
\* row is inserted, or the row with the highest id is returned; or the
\* database raises
RepoGet(c) ==
    /\ repo[c].pc = "write" /\ repo[c].op = "get"
    /\ \/ IF repo[c].seen = 0
          THEN /\ count' = count + 1
               /\ stored' = DefaultRow(count + 1)
               /\ config' = DefaultConfig
               /\ SetRepo(c, [repo[c] EXCEPT !.pc = "returned",
                                             !.ret = DefaultRow(count + 1)])
          ELSE /\ SetRepo(c, [repo[c] EXCEPT !.pc = "returned", !.ret = stored])
               /\ UNCHANGED <<count, stored, config>>
       \/ Raised(c) /\ UNCHANGED <<count, stored, config>>
    /\ UNCHANGED <<task, minutes_interval, next_scheduled_date, job_callback,
                   config_id, tasks, trigger, runs, files, put, other, camera>>

\* update_measurement_config after the count: no row was counted and a row
\* is inserted, or the row with the highest id is updated in place; or the
\* database raises
RepoWrite(c) ==
    /\ repo[c].pc = "write" /\ repo[c].op = "update"
    /\ \/ /\ \E row \in {IF repo[c].seen = 0 THEN NewRow(count + 1, repo[c].body)
                          ELSE Updated(stored, repo[c].body)} :
                /\ stored' = row
                /\ SetRepo(c, [repo[c] EXCEPT !.pc = "returned", !.ret = row])
          /\ count' = IF repo[c].seen = 0 THEN count + 1 ELSE count
          /\ config' = repo[c].body.cfg
       \/ Raised(c) /\ UNCHANGED <<count, stored, config>>
    /\ UNCHANGED <<task, minutes_interval, next_scheduled_date, job_callback,
                   config_id, tasks, trigger, runs, files, put, other, camera>>

RepoStep(c) == RepoEnter(c) \/ RepoCount(c) \/ RepoGet(c) \/ RepoWrite(c)

\* a step of the loop of the task in slot t
LoopStep(t) ==
    \/ WakeUp(t) \/ GetConfig(t) \/ Orchestrate(t) \/ AfterOrch(t)
    \/ CbGetConfig(t) \/ CbCreate(t) \/ AfterCallback(t)

\* a step of the task in slot t
TaskStep(t) == LoopStep(t) \/ DeliverCancel(t)

Next ==
    \/ register_job
    \/ SetNewSchedule
    \/ Tick
    \/ \E t \in Slots : TaskStep(t)

Spec == Init /\ [][Next]_vars

\* the schedule armed once, when the application starts (initialize_scheduler),
\* and never changed afterwards; time passes and the event loop runs a task
\* that is ready
InitialSchedule == minutes_interval = 0 /\ SetNewSchedule

NextLoop ==
    \/ register_job
    \/ InitialSchedule
    \/ Tick
    \/ \E t \in Slots : LoopStep(t)

SpecLoop ==
    /\ Init /\ [][NextLoop]_vars
    /\ WF_vars(Tick)
    /\ \A t \in Slots : WF_vars(LoopStep(t))

\* the orchestration alone, run by manual triggers on any stored configuration
InitOrch == Start /\ config \in Configs

SpecOrch == InitOrch /\ [][TriggerStep]_vars

\* manual starts with any configuration in the request body
SpecStart == Init /\ [][StartStep]_vars

\* the application starts with a valid configuration stored, migrates and
\* initializes its scheduler; configurations are then updated
InitSettings == Start /\ config = ValidConfig

NextSettings ==
    \/ MigrateStart
    \/ initialize_scheduler
    \/ UpdateStep
    \/ \E t \in Slots : DeliverCancel(t)

SpecSettings == InitSettings /\ [][NextSettings]_vars

\* the scheduler is initialized and two clients update the configuration, each
\* at any moment
NextConcurrent ==
    \/ initialize_scheduler
    \/ UpdateRequestOf(ConcurrentBodies) \/ ServiceUpdate \/ RepoUpdate
    \/ OtherStep
    \/ \E t \in Slots : DeliverCancel(t)

SpecConcurrent == InitSettings /\ [][NextConcurrent]_vars

\* updates that change the stages and keep the stored frequency and first
\* measurement: the service does not set the scheduler for them
ToggleBodies ==
    {[measurement_frequency |-> stored.measurement_frequency,
      first_measurement |-> stored.first_measurement,
      cfg |-> [c EXCEPT !.length_of_ae = Num(0)]] :
        c \in {RgbOnly, MultispectralOnly, AcousticOnly}}

\* the scheduler is initialized and its loop runs while the stages of the
\* stored configuration are updated
NextFire ==
    \/ register_job
    \/ initialize_scheduler
    \/ UpdateRequestOf(ToggleBodies) \/ ServiceUpdate \/ RepoUpdate
    \/ Tick
    \/ \E t \in Slots : LoopStep(t)

SpecFire == Init /\ [][NextFire]_vars

\* the repository called by concurrent callers on an empty measurement_config
\* table
InitRepo == Booted /\ stored = NoRow /\ count = 0 /\ config = DefaultConfig

SpecRepo == InitRepo /\ [][\E c \in Callers : RepoStep(c)]_vars

\* the camera stages alone, called for the Runs of an orchestration
SpecCamera == Init /\ [][StageBegin \/ StageSave]_vars

\* the schedule armed once and its loop running, with manual requests made
\* at any moment
NextManual ==
    \/ InitialSchedule
    \/ Tick
    \/ \E t \in Slots : LoopStep(t)
    \/ TriggerStep
    \/ StartRequestOf({DefaultConfig}) \/ StartCreate \/ StartStage \/ StartRespond

SpecManual == Init /\ [][NextManual]_vars

\* ================================================================ claims
\* the task in slot t is inside a job: between the top of the loop and the
\* sleep that ends the iteration
InJob(t) ==
    /\ tasks[t].st = "pending"
    /\ tasks[t].pc \in {"get_config", "orch", "cb_get_config", "cb_create", "cb_orch"}

\* the task in slot t starts a job in this step
StartsJob(t) == tasks[t].pc \in Sleeps /\ tasks'[t].pc = "get_config"

\* ---------------------------------------------------------------------- C1
\* C1 as stated: every call set_new_schedule(frequency, first_run,
\* config_identity) with frequency <= 0, from any reachable state and with any
\* config_identity, leaves the scheduler with active = false and no next fire.
C1_StopsForEveryIdentity ==
    \A interval \in Frequencies, cid \in ConfigIds, start_time \in StartTimes :
        interval <= 0 =>
            \E after \in {AfterSchedule(interval, start_time, cid)} :
                /\ ~ActiveOf(after.task, after.tasks)
                /\ after.next_scheduled_date = None

\* C1 amended: every call with frequency <= 0 that is not skipped (its
\* config_identity is null or differs from the recorded one) leaves the
\* scheduler with active = false and no next fire.
C1_StopsUnlessSkipped ==
    \A interval \in Frequencies, cid \in ConfigIds, start_time \in StartTimes :
        (interval <= 0 /\ ~Skipped(cid)) =>
            \E after \in {AfterSchedule(interval, start_time, cid)} :
                /\ ~ActiveOf(after.task, after.tasks)
                /\ after.next_scheduled_date = None

\* a stopping call has cancelled the task of an armed schedule
C1_Witness ==
    /\ task = 0 /\ next_scheduled_date = None /\ minutes_interval > 0
    /\ \E t \in Slots : tasks[t].st = "cancelling"

\* ---------------------------------------------------------------------- C2
\* C2: for every frequency > 0 and every first_run before now, a call that is
\* not skipped sets the next fire to first_run + k * frequency for the smallest
\* k >= 0 that puts it strictly after now.
C2_NextFireAligned ==
    \A interval \in 1..MaxFreq, first_run \in (0 - MaxPast)..(0 - 1), cid \in ConfigIds :
        (~Skipped(cid) /\ CanArm) =>
            \E after \in {AfterSchedule(interval, Some(first_run), cid)} :
            \E next_fire \in after.next_scheduled_date :
                /\ next_fire > Now
                /\ \E k \in 0..(MaxPast + 1) :
                      /\ next_fire = first_run + k * interval
                      /\ \A j \in 0..(k - 1) : first_run + j * interval <= Now

\* a schedule armed for an instant less than one interval away, as a first
\* run in the past leaves it
C2_Witness ==
    /\ Active /\ tasks[task].pc = "initial_sleep"
    /\ minutes_interval = MaxFreq
    /\ next_scheduled_date = Some(1) /\ tasks[task].wake = 1

\* ---------------------------------------------------------------------- C3
\* C3: a call whose config_identity is not null and equals the recorded one
\* changes nothing, whatever frequency and first_run it carries: task,
\* frequency, next fire and identity are as before, no task is cancelled and
\* none is created.
C3_SameIdentityNoOp ==
    config_id # None =>
        \A interval \in Frequencies, start_time \in StartTimes :
            AfterSchedule(interval, start_time, config_id) = Unchanged

\* an armed schedule with a recorded identity, between two fires
C3_Witness ==
    /\ config_id # None /\ Active
    /\ tasks[task].pc = "interval_sleep" /\ next_scheduled_date # None

\* ---------------------------------------------------------------------- C4
\* C4 as stated: there is no state in which two loop tasks are both not done.
C4_NoTwoTasksNotDone ==
    Cardinality({t \in Slots : tasks[t].st # "free"}) <= 1

\* C4 amended: in every reachable state at most one loop task is live
\* (created, not finished, cancellation not requested), and it is the task
\* the scheduler holds; the cancellation of the previous task is requested
\* before the new task is created but need not have been delivered, so a
\* cancelled task can still be not done beside the new one.
C4_AtMostOneLiveTask ==
    /\ \A t \in Slots : tasks[t].st = "pending" => t = task
    /\ \A interval \in 1..MaxFreq, cid \in ConfigIds :
          (~Skipped(cid) /\ CanArm) =>
              \E after \in {AfterSchedule(interval, None, cid)} :
                  \A t \in Slots : after.tasks[t].st = "pending" => t = after.task

\* a new task beside the previous one, whose cancellation is not yet delivered
C4_Witness ==
    \E t \in Slots :
        /\ Active /\ t # task /\ tasks[t].st = "cancelling"
        /\ tasks[task].pc = "initial_sleep"

\* ---------------------------------------------------------------------- C5
\* C5: once a call that replaces or stops the schedule has returned, the task
\* armed before it never starts another job: a job is started only by the
\* task the scheduler holds, and a task whose cancellation was requested
\* does nothing but end.
C5_CancelledTaskNeverFires ==
    [][\A t \in Slots :
          /\ StartsJob(t) => (t = task /\ tasks[t].st = "pending")
          /\ tasks[t].st = "cancelling" => tasks'[t].st \in {"cancelling", "free"}]_vars

\* a task that has fired is cancelled and the schedule is stopped
C5_Witness ==
    /\ task = 0 /\ Len(runs) > 0
    /\ \E t \in Slots : tasks[t].st = "cancelling"

\* ---------------------------------------------------------------------- C6
\* C6: two scheduled jobs never overlap: while a task is inside a job no other
\* task exists that is not done, so a job starts only after the previous one
\* has returned or raised, also when the job outlasts the frequency and when
\* the schedule is changed.
C6_JobsNeverOverlap ==
    \A t \in Slots : InJob(t) => \A u \in Slots \ {t} : tasks[u].st = "free"

\* a job that runs on after the instant of the next fire has passed
C6_Witness ==
    \E t \in Slots : InJob(t) /\ next_scheduled_date = Some(0 - 1)

\* ---------------------------------------------------------------------- C7
\* C7: a failing job never ends the loop: once armed, and with no later
\* set_new_schedule call, the scheduler stays active and the job is invoked
\* again and again, whatever fails.
C7_LoopSurvivesFailure ==
    /\ [](minutes_interval > 0 => Active)
    /\ []<>(Active => \E t \in Slots : tasks[t].pc = "get_config")

\* a fire has failed after its Run was created: the task backs off
C7_Witness ==
    /\ Active /\ tasks[task].pc = "backoff_sleep" /\ Len(runs) > 0

\* ---------------------------------------------------------------------- C8
\* C8 as stated: after the backoff the loop re-enters the wait between fires.
C8_BackoffThenFrequencyWait ==
    [][\A t \in Slots :
          (/\ tasks[t].pc = "backoff_sleep"
           /\ tasks'[t].st = "pending" /\ tasks'[t].pc # "backoff_sleep")
          => tasks'[t].pc = "interval_sleep"]_vars

\* C8 amended: when the job of a fire raises, the loop backs off 60 seconds and
\* then starts the next job at once: the next job does not start until the
\* backoff has elapsed, and no frequency wait follows the backoff.
C8_BackoffThenRetry ==
    [][\A t \in Slots :
          /\ (InJob(t) /\ tasks'[t].pc = "backoff_sleep") => tasks'[t].wake = Backoff
          /\ (/\ tasks[t].pc = "backoff_sleep"
              /\ tasks'[t].st = "pending" /\ tasks'[t].pc # "backoff_sleep")
             => (tasks[t].wake = 0 /\ StartsJob(t))]_vars

\* the backoff of a failed fire has elapsed
C8_Witness ==
    \E t \in Slots :
        /\ tasks[t].st = "pending" /\ tasks[t].pc = "backoff_sleep"
        /\ tasks[t].wake = 0

\* ---------------------------------------------------------------------- C9
\* the stages start_measurement_by_config invokes for a configuration
EnabledStages(cfg) ==
    {st \in {"rgb", "ms", "ae"} :
        \/ st = "rgb" /\ cfg.rgb_camera
        \/ st = "ms" /\ cfg.multispectral_camera
        \/ st = "ae" /\ AcousticEnabled(cfg)}

\* the stages whose result the call holds
Attempted(call) == {call.results[i].stage : i \in DOMAIN call.results}

\* the camera stages that reported success
CameraSuccesses(call) ==
    {i \in DOMAIN call.results :
        call.results[i].stage \in {"rgb", "ms"} /\ call.results[i].status = "success"}

\* the measurement_files rows of a Run saved by stages of the given kinds
FilesOf(run, kinds) == {f \in files : f.measurement_id = run /\ f.kind \in kinds}

\* what C9 says of a call that has returned after its Run was created
KeepsRun(call) ==
    /\ call.ret = Some(call.run)
    /\ Attempted(call) = EnabledStages(call.cfg)
    /\ Cardinality(FilesOf(call.run, {"rgb", "ms"})) = Cardinality(CameraSuccesses(call))

\* C9 as stated: for every configuration and every combination of stage
\* outcomes, a start_measurement_by_config call whose Run was created returns
\* the Run, attempts every enabled stage and leaves as many camera artifact
\* references as camera stages that reported success.
C9_StageFailureKeepsRun ==
    (trigger.call.pc = "return_" /\ trigger.call.run # 0) => KeepsRun(trigger.call)

\* C9 for the configurations whose length_of_ae is a finite number
C9_StageFailureKeepsRunFinite ==
    (/\ trigger.call.pc = "return_" /\ trigger.call.run # 0
     /\ IsFinite(trigger.call.cfg.length_of_ae)) => KeepsRun(trigger.call)

\* --------------------------------------------------------------------- C10
\* the acoustic stage ended because the upload of a sensor failed
UploadFailed(call) ==
    \E i \in DOMAIN call.results :
        call.results[i].stage = "ae" /\ call.results[i].message = "upload_failed"

\* C10 as stated: with N >= 2 sensors, when the upload of one sensor fails the
\* other sensors are still attempted: N - 1 artifact references are persisted
\* for the Run, the acoustic stage reports error and the Run stays persisted.
C10_SensorsIndependent ==
    (/\ trigger.call.pc = "return_" /\ trigger.call.cfg.number_of_sensors >= 2
     /\ UploadFailed(trigger.call))
    => /\ Cardinality(FilesOf(trigger.call.run, {"ae"}))
              = trigger.call.cfg.number_of_sensors - 1
       /\ \E i \in DOMAIN trigger.call.results :
              trigger.call.results[i].stage = "ae" /\ trigger.call.results[i].status = "error"
       /\ trigger.call.run \in 1..Len(runs)

\* --------------------------------------------------------------------- C11
\* C11 as stated: when saving the new Run fails, start_measurement_by_config
\* does not return a normal value: no call returns with its Run unsaved.
C11_SaveFailurePropagates ==
    ~(trigger.call.pc = "return_" /\ trigger.call.run = 0)

\* C11 amended: when saving the new Run fails, start_measurement_by_config
\* returns None to its caller (no exception propagates), no stage has been
\* invoked for that attempt, and the manual trigger answers success = false.
C11_SaveFailureReturnsNone ==
    (trigger.call.pc = "return_" /\ trigger.call.run = 0) =>
        /\ trigger.call.ret = None
        /\ trigger.call.results = <<>>
        /\ FilesOf(0, {"rgb", "ms", "ae"}) = {}
        /\ trigger.pc = "responded" => ~trigger.success

\* a manual trigger has answered after the save of its Run failed
C11_Witness ==
    /\ trigger.pc = "responded" /\ ~trigger.success
    /\ trigger.call.pc = "return_" /\ trigger.call.run = 0

\* --------------------------------------------------------------------- C12
\* the place of a stage in the fixed order
Rank(stage) == IF stage = "rgb" THEN 1 ELSE IF stage = "ms" THEN 2 ELSE 3

\* C12: within one run the enabled stages are invoked one after the other in
\* the order RGB camera, multispectral camera, acoustic sensors, whatever
\* their outcomes: the results the call holds are in that order, each from a
\* different stage that is enabled, and the stage the call is in comes after
\* all of them.
C12_StagesInFixedOrder ==
    \E call \in {trigger.call} :
        /\ \A i, j \in DOMAIN call.results :
              i < j => Rank(call.results[i].stage) < Rank(call.results[j].stage)
        /\ Attempted(call) \subseteq EnabledStages(call.cfg)
        /\ call.pc \in {"rgb", "ms", "ae", "ae_sensor"} =>
              /\ (IF call.pc = "ae_sensor" THEN "ae" ELSE call.pc) \in EnabledStages(call.cfg)
              /\ \A i \in DOMAIN call.results :
                    Rank(call.results[i].stage)
                        < Rank(IF call.pc = "ae_sensor" THEN "ae" ELSE call.pc)

\* all three stages have run, in order, after the first one failed
C12_Witness ==
    /\ trigger.call.pc = "return_" /\ Len(trigger.call.results) = 3
    /\ trigger.call.results[1].stage = "rgb" /\ trigger.call.results[1].status = "error"
    /\ trigger.call.results[2].stage = "ms"
    /\ trigger.call.results[3].stage = "ae"

\* --------------------------------------------------------------------- C13
\* C13 as stated, for POST /scheduler/trigger: every Run created by the
\* manual trigger is persisted with scheduled = false.
C13_ManualRunsNotScheduled ==
    \A i \in DOMAIN runs : ~runs[i].scheduled

\* --------------------------------------------------------------------- C15
\* C15 as stated: a manual start with a caller-supplied configuration creates
\* one Run with scheduled = false and attempts the stages a scheduled run
\* attempts for the same configuration, the acoustic stage included.
C15_ManualStartSamePath ==
    (/\ trigger.endpoint = "start" /\ trigger.pc = "responded"
     /\ trigger.call.run # 0)
    => /\ trigger.call.run \in DOMAIN runs
       /\ ~runs[trigger.call.run].scheduled
       /\ Attempted(trigger.call) = EnabledStages(trigger.call.cfg)

\* --------------------------------------------------------------------- C14
\* the Runs the job callback of the task's fire has created so far: one by
\* create_measurement, one more once its start_measurement_by_config call has
\* saved its own
RunsOfCallback(rec) ==
    IF rec.pc # "cb_orch" THEN 0 ELSE IF rec.call.run = 0 THEN 1 ELSE 2

\* C14 as stated, for a fire with a job callback registered: the fire creates
\* one Run, so its callback, which runs after the loop's own orchestration,
\* never creates more than one.
C14_OneRunPerFire == \A t \in Slots : RunsOfCallback(tasks[t]) <= 1

\* --------------------------------------------------------------------- C16
\* C16 as stated: a set_new_schedule call does not interrupt a run in
\* progress: the cancellation of a task is requested only while the task
\* waits, so a task that is inside a job stays a live task in every step.
C16_RunNotInterrupted ==
    [][\A t \in Slots : InJob(t) => tasks'[t].st = "pending"]_vars

\* --------------------------------------------------------------------- C17
\* C17 as stated: every successful configuration update returns a stored
\* configuration whose identity differs from the identity of the configuration
\* stored before it.
C17_UpdateGivesNewIdentity ==
    [][(put.pc = "repo_update" /\ put'.status = "200") => stored'.id # stored.id]_vars

\* --------------------------------------------------------------------- C18
\* i > x for an int i and a float x: false for NaN, true for -inf
IntGtFloat(i, x) == IF IsFinite(x) THEN i > x[2] ELSE x = NegInf

\* the frequency of the body does not exceed its stage duration
Invalid(body) == ~IntGtFloat(body.measurement_frequency, body.cfg.length_of_ae)

\* C18 as stated: on the PUT and on the startup migration, no step of an
\* update whose frequency does not exceed its stage duration changes the stored
\* configuration or the state of the scheduler.
C18_InvalidNeverStored ==
    [][(put' # put /\ put'.pc # "idle" /\ Invalid(put'.body))
          => UNCHANGED <<stored, config, task, minutes_interval, next_scheduled_date,
                         config_id, tasks>>]_vars

\* --------------------------------------------------------------------- C19
\* C19: no step of a manual request (POST /scheduler/trigger or POST
\* /measurements/start) changes the scheduler's task, frequency, next fire or
\* configuration identity, or whether it is active, whether the request
\* succeeds or fails and whether or not a scheduled run is in progress.
C19_ManualTriggerFrame ==
    [][trigger' # trigger =>
          /\ UNCHANGED <<task, minutes_interval, next_scheduled_date, config_id>>
          /\ ActiveOf(task', tasks') = Active]_vars

\* a manual trigger has been answered while a scheduled run is in progress
C19_Witness ==
    /\ trigger.pc = "responded" /\ trigger.call.pc = "return_"
    /\ Active /\ InJob(task) /\ next_scheduled_date # None

\* --------------------------------------------------------------------- C20
\* the task in slot t is inside the job callback
InCallback(t) == tasks[t].pc \in {"cb_get_config", "cb_create", "cb_orch"}

\* C20: a fire starts by setting the next fire to now + frequency; the job
\* callback, when one is registered, is entered once in the fire, after that,
\* and creates its Run with scheduled = true; the wait of frequency minutes
\* is entered only when the callback has returned.
C20_FireOrder ==
    [][\A t \in Slots :
          /\ StartsJob(t) => next_scheduled_date' = Some(Now + minutes_interval)
          /\ (~InCallback(t) /\ tasks'[t].pc = "cb_get_config")
                => tasks[t].pc = "orch" /\ job_callback
          /\ (tasks[t].pc # "orch" /\ tasks'[t].pc = "orch")
                => tasks[t].pc = "get_config"
          /\ (tasks[t].pc = "cb_create" /\ tasks'[t].pc = "cb_orch")
                => runs'[Len(runs')].scheduled
          /\ (InJob(t) /\ tasks'[t].pc = "interval_sleep")
                => /\ tasks'[t].wake = minutes_interval
                   /\ tasks[t].pc = IF job_callback THEN "cb_orch" ELSE "orch"]_vars

\* the callback of a fire is about to return to the loop
C20_Witness ==
    /\ Active /\ tasks[task].st = "pending"
    /\ tasks[task].pc = "cb_orch" /\ tasks[task].call.pc = "return_"
    /\ next_scheduled_date # None /\ Len(runs) = MaxRuns

AttemptsOf(rec, r) == IF rec.call.run = r THEN Attempted(rec.call) ELSE {}

\* the Runs the job callback of the task has created when its
\* start_measurement_by_config call has saved its own: the Run of
\* create_measurement, saved just before, and the Run of the call
RunsOfCallbackCall(rec) == {rec.call.run - 1, rec.call.run}

\* C22 as stated, on the scheduled path: when the orchestration of the job
\* callback has returned, every Run the callback has persisted has had each
\* stage enabled in its own snapshot attempted under its identity.
C22_EveryRunTerminal ==
    \A t \in Slots :
        (/\ tasks[t].st = "pending" /\ tasks[t].pc = "cb_orch"
         /\ tasks[t].call.pc = "return_" /\ tasks[t].call.run # 0)
        => \A r \in RunsOfCallbackCall(tasks[t]) :
               EnabledStages(runs[r]) \subseteq AttemptsOf(tasks[t], r)

\* --------------------------------------------------------------------- C23
\* the call has created its Run and has not returned
InProgress(call) ==
    call.run # 0 /\ call.pc \notin {"idle", "return_", "legacy_return"}

\* the calls of the loop tasks and of the manual request
CallsInFlight == {tasks[t].call : t \in Slots} \cup {trigger.call}

\* C23: a Run is append-only: in every step the Runs persisted keep their
\* place, toggle snapshot and scheduled flag, no artifact record is removed or
\* replaced, and an artifact record that is added belongs to the Run of a call
\* that has not returned.
C23_RunAppendOnly ==
    [][/\ \A i \in DOMAIN runs : i \in DOMAIN runs' /\ runs'[i] = runs[i]
       /\ files \subseteq files'
       /\ \A f \in files' \ files :
             \E call \in CallsInFlight : InProgress(call) /\ call.run = f.measurement_id]_vars

\* two Runs hold an artifact record each
C23_Witness ==
    \E f, g \in files : f.measurement_id = 1 /\ g.measurement_id = 2

\* --------------------------------------------------------------------- C24
\* C24 as stated: in every reachable state the stored configuration has a
\* frequency that exceeds its stage duration.
C24_StoredConfigValid ==
    IntGtFloat(stored.measurement_frequency, config.length_of_ae)

\* --------------------------------------------------------------------- C25
\* C25 as stated: once a call with frequency <= 0 has left the scheduler idle
\* (not active, no next fire), a call with frequency > 0 and any identity,
\* the identity of the stopping call included, is not skipped: it leaves the
\* scheduler active with a next fire.
C25_IdleArmsSameIdentity ==
    (~Active /\ next_scheduled_date = None /\ CanArm) =>
        \A interval \in 1..MaxFreq, start_time \in StartTimes,
           cid \in ConfigIds \ {None} :
            \E after \in {AfterSchedule(interval, start_time, cid)} :
                ActiveOf(after.task, after.tasks) /\ after.next_scheduled_date # None

\* --------------------------------------------------------------------- C26
\* the loop's own start_measurement_by_config call has returned None
ReturnedNone(rec) ==
    rec.st = "pending" /\ rec.pc = "orch" /\ rec.call.pc = "return_" /\ rec.call.ret = None

\* C26 as stated: when the orchestration of a fire has returned no Run, the
\* next step of the loop is the 60-second backoff, not the job callback and
\* not the frequency wait.
C26_NoRunBacksOff ==
    [][\A t \in Slots :
          (ReturnedNone(tasks[t]) /\ tasks'[t] # tasks[t] /\ tasks'[t].st = "pending")
              => tasks'[t].pc = "backoff_sleep" /\ tasks'[t].wake = Backoff]_vars

\* --------------------------------------------------------------------- C27
\* C27 as stated: the job callback is registered before the first fire: no
\* task starts a job while no callback is registered.
C27_NoFireWithoutCallback ==
    [][\A t \in Slots : StartsJob(t) => job_callback]_vars

\* --------------------------------------------------------------------- C28
\* SettingsService.update_measurement_config goes on to the repository in
\* this step: what it does to the scheduler is done
ServiceReturns == put.pc = "svc_get" /\ put'.pc = "repo_update"

\* the new configuration's frequency or first measurement is not the stored one
NewSchedule ==
    \/ put.body.measurement_frequency # stored.measurement_frequency
    \/ put.body.first_measurement # stored.first_measurement

\* the step leaves a new task armed, waiting for its first fire
Rearmed ==
    /\ ActiveOf(task', tasks') /\ tasks[task'].st = "free"
    /\ tasks'[task'].st = "pending" /\ tasks'[task'].pc = "initial_sleep"
    /\ minutes_interval' = put.body.measurement_frequency
    /\ next_scheduled_date' # None /\ Val(next_scheduled_date') >= Now
    /\ tasks'[task'].wake = Val(next_scheduled_date') - Now

\* C28 as stated: when the service's update goes on to the repository, the
\* scheduler has been re-armed if the new frequency or first measurement
\* differs from the stored one, and is unchanged in every field otherwise.
C28_RearmedIffDiffers ==
    [][ServiceReturns =>
          IF NewSchedule THEN Rearmed ELSE SchedulerUnchanged]_vars

\* C28 amended: when the service's update goes on to the repository, the
\* service has called set_new_schedule, without an identity, if and only if
\* the new frequency or first measurement differs from the stored one: the
\* existing task is cancelled and the recorded identity kept; a frequency > 0
\* leaves a new task armed and a frequency <= 0 leaves the scheduler stopped
\* with no next fire. When neither differs every scheduler field is unchanged.
C28_ServiceSetsIffDiffers ==
    [][ServiceReturns =>
          IF NewSchedule
          THEN /\ config_id' = config_id
               /\ Active => tasks'[task].st = "cancelling"
               /\ IF put.body.measurement_frequency > 0
                  THEN Rearmed
                  ELSE ~ActiveOf(task', tasks') /\ next_scheduled_date' = None
          ELSE SchedulerUnchanged]_vars

\* the service has armed the scheduler for a frequency that is not the stored
\* one and is about to call the repository
C28_Witness ==
    /\ put.pc = "repo_update"
    /\ put.body.measurement_frequency = MaxFreq
    /\ stored.measurement_frequency # MaxFreq
    /\ Active /\ tasks[task].st = "pending" /\ tasks[task].pc = "initial_sleep"
    /\ minutes_interval = MaxFreq

\* --------------------------------------------------------------------- C29
\* the update that has been answered was rejected by the validation
Rejected ==
    /\ put.kind = "put" /\ put.pc = "done"
    /\ IntLeFloat(put.body.measurement_frequency, put.body.cfg.length_of_ae)

\* C29 as stated: a configuration update rejected by the validation
\* (frequency <= stage duration) is answered with HTTP 400, not with the
\* HTTP 500 of unexpected errors.
C29_RejectionIs400 == Rejected => put.status = "400"

\* --------------------------------------------------------------------- C30
\* C30 as stated: no task starts a job before the next fire the scheduler
\* publishes, whether it was waiting for its first fire, for the frequency
\* or for the 60-second backoff.
C30_NoFireBeforePublished ==
    [][\A t \in Slots :
          StartsJob(t) =>
              next_scheduled_date # None /\ Val(next_scheduled_date) <= Now]_vars

\* --------------------------------------------------------------------- C31
\* this step is a set_new_schedule call without an identity that arms a new
\* task with another frequency while an identity is recorded: no other call
\* arms and leaves the recorded identity as it is
ArmsWithoutIdentity ==
    /\ config_id # None /\ config_id' = config_id
    /\ minutes_interval' # minutes_interval
    /\ task' # 0 /\ tasks[task'].st = "free" /\ tasks'[task'].st = "pending"

\* a call with the recorded identity and any frequency > 0 is not skipped: it
\* arms a new task with its own frequency
RecordedIdentityArms ==
    \A interval \in 1..MaxFreq, start_time \in StartTimes :
        CanArm =>
            \E after \in {AfterSchedule(interval, start_time, config_id)} :
                /\ after.minutes_interval = interval
                /\ after.task # task /\ ActiveOf(after.task, after.tasks)

\* C31 as stated: once a call without an identity has re-armed the timer with
\* another frequency, a call carrying the identity recorded before it is not
\* skipped: it re-arms the timer with its own frequency.
C31_SkippedOnlyForLiveIdentity ==
    [][ArmsWithoutIdentity => RecordedIdentityArms']_vars

\* --------------------------------------------------------------------- C32
\* the update has been answered with success
Completed(update) == update.pc = "done" /\ update.status = "200"

\* the scheduler is armed with the stored frequency, or idle when that
\* frequency is <= 0
ArmedAsStored ==
    IF stored.measurement_frequency > 0
    THEN Active /\ minutes_interval = stored.measurement_frequency
    ELSE ~Active

\* C32 as stated: once two configuration updates, interleaved in any way,
\* have both completed, the frequency armed in the scheduler is the frequency
\* of the stored configuration, or the scheduler is idle when that frequency
\* is <= 0.
C32_ConcurrentUpdatesCoherent ==
    (Completed(put) /\ Completed(other)) => ArmedAsStored

\* --------------------------------------------------------------------- C33
\* SettingsRepository.update_measurement_config raises in this step: the PUT
\* is answered without having stored its configuration
PersistFails ==
    put.kind = "put" /\ put.pc = "repo_update" /\ put'.pc = "done" /\ put'.status = "500"

\* C33 as stated: when persisting an updated configuration fails, the update
\* leaves the scheduler as it was: the scheduler is not armed with a frequency
\* that is not the stored one.
C33_FailedPersistLeavesScheduler ==
    [][PersistFails =>
          (ActiveOf(task', tasks') =>
              minutes_interval' = stored'.measurement_frequency)]_vars

\* --------------------------------------------------------------------- C34
\* C34: in every reachable state the next fire is None exactly when the
\* scheduler is not active, whatever set_new_schedule calls, fires and job
\* errors came before.
C34_StatusCoherent == (next_scheduled_date = None) <=> ~Active

\* an armed schedule has been stopped: the scheduler is not active and has no
\* next fire while the cancelled task is not yet done
C34_Witness ==
    /\ ~Active /\ next_scheduled_date = None /\ minutes_interval > 0
    /\ \E t \in Slots : tasks[t].st = "cancelling"

\* --------------------------------------------------------------------- C35
\* C35 as stated, for the calls made once a positive frequency is reported:
\* every set_new_schedule call that is not skipped leaves the frequency the
\* status reports equal to its frequency argument, a frequency <= 0 that stops
\* the schedule included.
C35_FrequencyOfLastCall ==
    \A interval \in Frequencies, start_time \in StartTimes, cid \in ConfigIds :
        (minutes_interval > 0 /\ ~Skipped(cid) /\ (Arms(interval, cid) => CanArm)) =>
            AfterSchedule(interval, start_time, cid).minutes_interval = interval

\* --------------------------------------------------------------------- C36
\* C36 as stated: when a camera stage has returned, whatever its outcome,
\* the capture device it connected is disconnected.
C36_DeviceDisconnected == camera.pc = "returned" => ~camera.connected

\* --------------------------------------------------------------------- C37
\* C37 as stated: whatever the interleaving of get_measurement_config and
\* update_measurement_config calls on a table that starts empty, at most one
\* row is ever created.
C37_AtMostOneRow == count <= 1

\* --------------------------------------------------------------------- C38
\* the loop of the task in slot t gets the configuration in this step
ReadsConfig(t) == tasks[t].pc = "get_config" /\ tasks'[t].pc = "orch"

\* the orchestration of the fire of the task in slot t creates its Run in
\* this step
CreatesRun(t) ==
    /\ tasks[t].pc = "orch" /\ tasks[t].call.pc = "save_run"
    /\ Len(runs') = Len(runs) + 1 /\ tasks'[t].call.run = Len(runs')

\* C38: each fire reads the configuration that is stored when it reads, not
\* the one stored when the timer was armed, and the Run it creates holds the
\* stage toggles, the sensor count and the stage duration of the
\* configuration read at that fire.
C38_FireUsesStoredConfig ==
    [][\A t \in Slots :
          /\ ReadsConfig(t) => tasks'[t].call.cfg = config
          /\ CreatesRun(t) => runs'[Len(runs')] = RunOf(tasks[t].call.cfg, TRUE)]_vars

\* the timer armed when the application started has fired twice and never
\* been armed again: its second Run holds the stage duration an update has
\* stored since the first
C38_Witness ==
    /\ Len(runs) >= 2
    /\ runs[1].length_of_ae = Num(DefaultLengthOfAe)
    /\ runs[2].length_of_ae = Num(0)
    /\ Active /\ task = 1 /\ config_id # None

====
